---- MODULE Spec2Model ----
(***************************************************************************)
(* Back-Git-Up (src/main.py): a driver loop that calls main() once a day.  *)
(* main() reads the token, creates the base directory, enumerates the      *)
(* repositories page by page (get_github_repos), then clones or pulls each *)
(* one in list order (clone_or_update_repo) and prints a summary.          *)
(*                                                                         *)
(* The process is modelled by its position (pc), which moves between the   *)
(* points where the program blocks on the outside world: the HTTP request  *)
(* (requests.get), the git child process (subprocess.run) and the          *)
(* inter-pass time.sleep.  Everything the code does between two such       *)
(* points is one atomic action.                                            *)
(***************************************************************************)
EXTENDS Integers, Sequences, FiniteSets, TLC

\* ---------------------------------------------------------------- bounds

\* longest repository list the forge account holds
MaxRepos == 3
\* page size the forge serves (the program asks for per_page = 100, main.py:23)
PageSize == 2
\* the count of consecutive passes with a failed enumeration saturates here
MaxConsecutive == 2
\* most changes of the forge's list while one enumeration is under way
MaxShifts == 1

\* ------------------------------------------------------- repository data

\* Repository objects as the API returns them: JSON objects (dicts).  A full
\* name is a string, modelled as its sequence of characters.
RepoAF == [full_name |-> <<"a", "/", "f">>, clone_url |-> "https://forge/a/f.git"]
RepoBF == [full_name |-> <<"b", "/", "f">>, clone_url |-> "https://forge/b/f.git"]
\* an object that lacks a key the program reads
RepoNoName == [clone_url |-> "https://forge/x/y.git"]

Universe == {RepoAF, RepoBF, RepoNoName}

HasKey(d, k) == k \in DOMAIN d

Min(a, b) == IF a < b THEN a ELSE b

\* the duplicate-free lists of at most MaxRepos repository objects
RepoLists ==
    UNION {{s \in [1..n -> Universe] : \A x, y \in 1..n : x # y => s[x] # s[y]}
           : n \in 0..MaxRepos}

\* ------------------------------------------------------------ path model

\* base_dir = Path(os.getenv("REPOS_DIR", "repos")), as its tuple of parts
base_dir == << <<"r", "e", "p", "o", "s">> >>

\* A finished component joins the parts unless it is empty or "." (pathlib
\* drops both; ".." is kept).
Component(cur) == IF cur = <<>> \/ cur = <<".">> THEN <<>> ELSE <<cur>>

\* The parts of a relative path string: split at "/".
RECURSIVE Parts(_, _, _)
Parts(s, k, cur) ==
    IF k > Len(s)
    THEN Component(cur)
    ELSE IF s[k] = "/"
         THEN Component(cur) \o Parts(s, k + 1, <<>>)
         ELSE Parts(s, k + 1, Append(cur, s[k]))

\* number of "/" a path string starts with
RECURSIVE LeadingSlashes(_, _)
LeadingSlashes(s, k) ==
    IF k <= Len(s) /\ s[k] = "/" THEN 1 + LeadingSlashes(s, k + 1) ELSE 0

\* The root of an absolute POSIX path: exactly two leading slashes are kept
\* as the root "//", any other number is the root "/".
Root(name) == IF LeadingSlashes(name, 1) = 2 THEN <<"/", "/">> ELSE <<"/">>

\* repo_path = base_dir / repo_name : an absolute right operand replaces the
\* left one, otherwise its parts are appended.
RepoPath(base, name) ==
    IF LeadingSlashes(name, 1) > 0
    THEN <<Root(name)>> \o Parts(name, 1, <<>>)
    ELSE base \o Parts(name, 1, <<>>)

WellFormed(d) == HasKey(d, "full_name") /\ HasKey(d, "clone_url")

TargetPaths ==
    {RepoPath(base_dir, d.full_name) : d \in {x \in Universe : HasKey(x, "full_name")}}

\* what is at a target path: nothing, a valid working copy, or something
\* else (a directory that is no repository, a half-written clone)
PathStates == {"absent", "repo", "junk"}

NoOp == [kind |-> "none", path |-> <<>>]

VARIABLES
    pc,             \* "start", "http_wait", "loop", "git_wait", "sleep", "exited"
    verbose,        \* args.verbose
    remote,         \* the repository list the forge holds now
    fs,             \* state of every target path under base_dir
    page,           \* get_github_repos: page
    repos,          \* get_github_repos: repos, then main: repos
    pagesServed,    \* the pages the forge has answered with 200 in this pass
    shifts,         \* changes of the forge's list during the enumeration of this pass
    idx,            \* position of the for loop of main in repos
    success_count,  \* main: success_count
    fail_count,     \* main: fail_count
    op,             \* the git child process subprocess.run is waiting for
    orphans,        \* descendants of a git killed at its timeout are still running
    acts,           \* per processed list position: what clone_or_update_repo did
    status,         \* what main() returned (-1 while it runs)
    result,         \* how the pass ended
    procExit,       \* exit code of the process (-1 while it runs)
    apiFailed,      \* a page request of this pass got a non-200 response
    healthy,        \* nothing outside the program failed or changed in this pass so far
    prevHealthy,    \* the previous pass was healthy and enumerated this same list
    consecFatal     \* consecutive passes ended by a failed enumeration (saturating)

passVars == <<page, repos, pagesServed, shifts, idx, success_count, fail_count, op, acts>>
histVars == <<apiFailed, healthy, prevHealthy, consecFatal>>
vars == <<pc, verbose, remote, fs, orphans, passVars, status, result, procExit, histVars>>

Exists(p) == fs[p] # "absent"

Init ==
    /\ pc = "start"
    /\ verbose \in BOOLEAN
    /\ remote \in RepoLists
    /\ fs \in [TargetPaths -> PathStates]
    /\ page = 1
    /\ repos = <<>>
    /\ pagesServed = <<>>
    /\ shifts = 0
    /\ idx = 1
    /\ success_count = 0
    /\ fail_count = 0
    /\ op = NoOp
    /\ orphans = FALSE
    /\ acts = <<>>
    /\ status = -1
    /\ result = "none"
    /\ procExit = -1
    /\ apiFailed = FALSE
    /\ healthy = TRUE
    /\ prevHealthy = FALSE
    /\ consecFatal = 0

\* ------------------------------------------------------------ the driver

\* (mutation) a driver that leaves its loop with main's status once a pass
\* fails: `if main() != 0: sys.exit(1)`
AfterMainExitOnFailure(ret) ==
    IF ret = 0
    THEN pc' = "sleep" /\ procExit' = procExit
    ELSE pc' = "exited" /\ procExit' = ret

\* The driver loop: `while True: main(); print(...); time.sleep(one_day)`.
\* The value main() returned is dropped; the process goes to sleep.
AfterMain(ret) ==
    /\ pc' = "sleep"
    /\ procExit' = procExit

\* `except Exception as e: ... return 1` of main
Fatal(kind) ==
    /\ status' = 1
    /\ result' = kind
    /\ AfterMain(1)

\* main() from its call to the first requests.get of get_github_repos:
\* the token is read from the environment and the base directory is made.
\* base_dir.mkdir(exist_ok=True) is outside every try: when it raises, the
\* exception leaves main() and the driver loop, and the interpreter exits 1.
MainStart(tokenPresent, baseDirOK) ==
    /\ pc = "start"
    /\ IF ~tokenPresent
       THEN /\ status' = 1
            /\ result' = "no_token"
            /\ AfterMain(1)
       ELSE IF ~baseDirOK
       THEN /\ pc' = "exited"
            /\ procExit' = 1
            /\ result' = "crash"
            /\ status' = status
       ELSE /\ pc' = "http_wait"
            /\ UNCHANGED <<procExit, result, status>>
    /\ healthy' = (tokenPresent /\ baseDirOK)
    /\ UNCHANGED <<verbose, remote, fs, orphans, passVars>>
    /\ UNCHANGED <<apiFailed, prevHealthy, consecFatal>>

\* ------------------------------------------------------- get_github_repos

StatusCodes == {200, 404, 500}

\* what the forge answers to ?page=p&per_page=PageSize
PageOf(list, p) == SubSeq(list, (p - 1) * PageSize + 1, Min(p * PageSize, Len(list)))

\* (mutation) only server errors raise: `if response.status_code >= 500`
IsApiErrorOnly5xx(code) == code >= 500

\* `if response.status_code != 200: raise Exception(...)`
IsApiError(code) == code # 200

\* (mutation) the page replaces the list: `repos = page_repos`
ExtendReplaces(rs, page_repos) == page_repos

\* `repos.extend(page_repos)`
Extend(rs, page_repos) == rs \o page_repos

\* the verbose listing of main reads repo['full_name'] of every repository
ListingRaises == verbose /\ \E k \in 1..Len(repos) : ~HasKey(repos[k], "full_name")

\* requests.get returned: the rest of the loop body of get_github_repos up
\* to the next requests.get, or, on an empty page, the return to main and
\* main up to its for loop.
HttpResponse(code) ==
    /\ pc = "http_wait"
    /\ apiFailed' = (apiFailed \/ code # 200)
    /\ healthy' = (healthy /\ code = 200)
    /\ IF IsApiError(code)
       THEN /\ Fatal("fatal_enum")
            /\ UNCHANGED <<page, repos, pagesServed>>
       ELSE LET page_repos == PageOf(remote, page)
            IN  IF page_repos = <<>>
                THEN /\ IF ListingRaises
                        THEN Fatal("fatal_keyerror")
                        ELSE /\ pc' = "loop"
                             /\ UNCHANGED <<status, result, procExit>>
                     /\ pagesServed' = Append(pagesServed, page_repos)
                     /\ UNCHANGED <<page, repos>>
                ELSE /\ repos' = Extend(repos, page_repos)
                     /\ page' = page + 1
                     /\ pagesServed' = Append(pagesServed, page_repos)
                     /\ pc' = "http_wait"
                     /\ UNCHANGED <<status, result, procExit>>
    /\ UNCHANGED <<verbose, remote, fs, orphans, shifts, idx, success_count, fail_count, op, acts>>
    /\ UNCHANGED <<prevHealthy, consecFatal>>

\* requests.get raised (no connection, no name resolution): the exception
\* leaves get_github_repos and is caught by main.
HttpException ==
    /\ pc = "http_wait"
    /\ Fatal("fatal_enum")
    /\ healthy' = FALSE
    /\ UNCHANGED <<verbose, remote, fs, orphans, passVars>>
    /\ UNCHANGED <<apiFailed, prevHealthy, consecFatal>>

\* --------------------------------------------------- clone_or_update_repo

\* `if repo_path.exists(): ... git pull ... else: ... git clone ...`
ChooseOp(exists) == IF exists THEN "pull" ELSE "clone"

\* `return 0 if fail_count == 0 else 1`
ExitStatus(fails) == IF fails = 0 THEN 0 ELSE 1

\* clone_or_update_repo returned ok (True or False); main counts it and
\* goes to the next repository
Record(kind, path, ok) ==
    /\ acts' = Append(acts, [kind |-> kind, path |-> path, ok |-> ok])
    /\ success_count' = (IF ok THEN success_count + 1 ELSE success_count)
    /\ fail_count' = (IF ok THEN fail_count ELSE fail_count + 1)
    /\ idx' = idx + 1
    /\ op' = NoOp
    /\ pc' = "loop"

PrepOutcomes == {"ok", "mkdir_error", "spawn_error"}

\* One turn of `for repo in repos`, up to the point where subprocess.run
\* waits for git, or the summary once the list is exhausted.
\*   prep = "mkdir_error": repo_path.parent.mkdir raises (inside the try)
\*   prep = "spawn_error": subprocess.run raises before git runs (inside the try)
LoopStep(prep) ==
    /\ pc = "loop"
    /\ IF idx > Len(repos)
       THEN /\ prep = "ok"
            /\ status' = ExitStatus(fail_count)
            /\ result' = "summary"
            /\ AfterMain(ExitStatus(fail_count))
            /\ UNCHANGED <<idx, success_count, fail_count, op, acts, healthy>>
       ELSE LET repo == repos[idx]
            IN  IF ~WellFormed(repo)
                THEN \* repo_data["full_name"] / repo_data["clone_url"] raise
                     \* KeyError before the try of clone_or_update_repo
                     /\ prep = "ok"
                     /\ Fatal("fatal_keyerror")
                     /\ UNCHANGED <<idx, success_count, fail_count, op, acts, healthy>>
                ELSE LET path == RepoPath(base_dir, repo.full_name)
                         kind == ChooseOp(Exists(path))
                     IN  /\ UNCHANGED <<status, result, procExit>>
                         /\ IF prep = "ok"
                            THEN /\ op' = [kind |-> kind, path |-> path]
                                 /\ pc' = "git_wait"
                                 /\ UNCHANGED <<idx, success_count, fail_count, acts, healthy>>
                            ELSE /\ prep = "mkdir_error" => kind = "clone"
                                 /\ Record(IF prep = "mkdir_error" THEN "none" ELSE kind,
                                           path, FALSE)
                                 /\ healthy' = FALSE
    /\ UNCHANGED <<verbose, remote, fs, orphans, page, repos, pagesServed, shifts>>
    /\ UNCHANGED <<apiFailed, prevHealthy, consecFatal>>

ReturnCodes == {0, 1}

\* git exited within the 300 s with return code rc; left is what is at the
\* target path afterwards.  A clone that exits 0 leaves a working copy; one
\* that exits non-zero may have removed what it created, may leave a
\* complete repository ("Clone succeeded, but checkout failed") or remains
\* of one.  A pull leaves the path what it was; in a directory that is no
\* working copy it fails, or finds an enclosing repository and exits 0.
GitReturn(rc, left) ==
    /\ pc = "git_wait"
    /\ IF op.kind = "clone" THEN (rc = 0 => left = "repo") ELSE left = fs[op.path]
    /\ fs' = [fs EXCEPT ![op.path] = left]
    /\ healthy' = (healthy /\ (rc = 0 \/ (op.kind = "pull" /\ fs[op.path] = "junk")))
    /\ Record(op.kind, op.path, rc = 0)
    /\ UNCHANGED <<verbose, remote, orphans, page, repos, pagesServed, shifts, status, result, procExit>>
    /\ UNCHANGED <<apiFailed, prevHealthy, consecFatal>>

\* subprocess.TimeoutExpired: subprocess.run kills its child (Popen.kill)
\* and the handler returns False.  A killed clone cannot clean up: what it
\* has written so far (left: nothing, remains, or a complete working copy
\* when it was killed during checkout) stays at the target path.  Only the
\* direct child is killed: its descendants (git fetch, git-upload-pack,
\* filters) may go on running (orphaned).
GitTimeout(left, orphaned) ==
    /\ pc = "git_wait"
    /\ IF op.kind = "clone" THEN left \in PathStates ELSE left = fs[op.path]
    /\ fs' = [fs EXCEPT ![op.path] = left]
    /\ orphans' = (orphans \/ orphaned)
    /\ healthy' = FALSE
    /\ Record(op.kind, op.path, FALSE)
    /\ UNCHANGED <<verbose, remote, page, repos, pagesServed, shifts, status, result, procExit>>
    /\ UNCHANGED <<apiFailed, prevHealthy, consecFatal>>

\* The descendants killed gits left behind have all come to an end, by
\* themselves (nothing in the program makes them).
OrphanExit ==
    /\ orphans
    /\ orphans' = FALSE
    /\ UNCHANGED <<pc, verbose, remote, fs, passVars, status, result, procExit, histVars>>

\* time.sleep(one_day) returns and the driver calls main() again.
Wake ==
    /\ pc = "sleep"
    /\ pc' = "start"
    /\ page' = 1
    /\ repos' = <<>>
    /\ pagesServed' = <<>>
    /\ shifts' = 0
    /\ idx' = 1
    /\ success_count' = 0
    /\ fail_count' = 0
    /\ op' = NoOp
    /\ acts' = <<>>
    /\ status' = -1
    /\ result' = "none"
    /\ apiFailed' = FALSE
    /\ healthy' = TRUE
    /\ prevHealthy' = (healthy /\ result \in {"summary", "fatal_keyerror"})
    /\ consecFatal' = (IF result = "fatal_enum" THEN Min(consecFatal + 1, MaxConsecutive) ELSE 0)
    /\ UNCHANGED <<verbose, remote, fs, orphans, procExit>>

\* ------------------------------------------------------------- the forge

RemoveAt(list, k) == SubSeq(list, 1, k - 1) \o SubSeq(list, k + 1, Len(list))

InsertAt(list, k, d) == SubSeq(list, 1, k - 1) \o <<d>> \o SubSeq(list, k, Len(list))

\* A repository is created on the forge or deleted from it.  The program
\* reads the forge's list at every page request, so a change between two
\* requests of one enumeration shifts the pages that follow (a repository
\* is skipped or listed twice); a change after the enumeration is seen by
\* the next pass.
RemoteChange ==
    /\ pc \in {"start", "http_wait"}
    /\ pc = "http_wait" => shifts < MaxShifts
    /\ shifts' = (IF pc = "http_wait" THEN shifts + 1 ELSE shifts)
    /\ \/ \E k \in 1..Len(remote) : remote' = RemoveAt(remote, k)
       \/ /\ Len(remote) < MaxRepos
          /\ \E k \in 1..(Len(remote) + 1) :
                 \E d \in Universe \ {remote[j] : j \in 1..Len(remote)} :
                     remote' = InsertAt(remote, k, d)
    /\ healthy' = (healthy /\ pc = "start")
    /\ prevHealthy' = FALSE
    /\ UNCHANGED <<pc, verbose, fs, orphans, status, result, procExit>>
    /\ UNCHANGED <<page, repos, pagesServed, idx, success_count, fail_count, op, acts>>
    /\ UNCHANGED <<apiFailed, consecFatal>>

GitFinish ==
    \/ \E rc \in ReturnCodes, left \in PathStates : GitReturn(rc, left)
    \/ \E left \in PathStates, orphaned \in BOOLEAN : GitTimeout(left, orphaned)

Next ==
    \/ \E t, b \in BOOLEAN : MainStart(t, b)
    \/ \E code \in StatusCodes : HttpResponse(code)
    \/ HttpException
    \/ \E prep \in PrepOutcomes : LoopStep(prep)
    \/ \E rc \in ReturnCodes, left \in PathStates : GitReturn(rc, left)
    \/ \E left \in PathStates, orphaned \in BOOLEAN : GitTimeout(left, orphaned)
    \/ OrphanExit
    \/ Wake
    \/ RemoteChange

Spec == Init /\ [][Next]_vars

\* The program's own steps always happen: main is called, the loop goes on,
\* subprocess.run returns or hits its timeout of 300 s, time.sleep returns.
\* Nothing bounds requests.get (it is called without a timeout), so no
\* fairness is stated for the answer of the forge; nor for the end of the
\* descendants of a killed git, which the program does not wait for.
FairSpec ==
    /\ Spec
    /\ WF_vars(\E t, b \in BOOLEAN : MainStart(t, b))
    /\ WF_vars(\E prep \in PrepOutcomes : LoopStep(prep))
    /\ WF_vars(GitFinish)
    /\ WF_vars(Wake)

\* ---------------------------------------------------------------- claims

\* the pass is over and its enumeration had completed
PassEndedEnumerated == pc = "sleep" /\ result \in {"summary", "fatal_keyerror"}

\* C1: a failing action never aborts its siblings: in a pass whose
\* enumeration completed, every repository of the list is attempted and the
\* pass ends with a summary, never with a fatal error.
C1_SiblingsStillAttempted ==
    PassEndedEnumerated => (idx = Len(repos) + 1 /\ result = "summary")

\* C2: a pass ended by a failed repository-list request leaves the driver
\* alive: the step that fails the enumeration puts the process to sleep (it
\* does not exit), and from there the next pass starts, however many passes
\* failed in a row.
C2_DriverSurvivesFatalEnumeration ==
    /\ [][(result' = "fatal_enum" /\ result # "fatal_enum")
            => (pc' = "sleep" /\ procExit' = -1)]_vars
    /\ (result = "fatal_enum") ~> (pc = "start" /\ consecFatal >= 1 /\ procExit = -1)

\* a pass starts after MaxConsecutive passes in a row failed to enumerate
C2_Witness == pc = "start" /\ consecFatal >= 2 /\ procExit = -1

\* C3: a non-200 answer to any page request aborts the pass: no clone and
\* no pull runs in it, no repository is attempted, and main reports a fatal
\* error (returns 1).
C3_Non200AbortsPass ==
    apiFailed =>
        /\ pc = "sleep"
        /\ result = "fatal_enum"
        /\ status = 1
        /\ acts = <<>>
        /\ op = NoOp
        /\ success_count = 0
        /\ fail_count = 0

\* a later page failed after earlier pages had been fetched
C3_Witness == apiFailed /\ page >= 2 /\ Len(repos) >= PageSize

\* C4: the status of a pass is 0 exactly when nothing failed and no fatal
\* error occurred, and the command exits with that status.
C4_ExitCodeIsPassStatus ==
    pc = "sleep" =>
        /\ (status = 0) <=> (result = "summary" /\ fail_count = 0)
        /\ procExit = status

\* C5: git runs against a target path only to clone into a path that does
\* not exist or to update a valid working copy; a path that exists but is
\* no working copy is skipped.
C5_PathCollisionSkipped ==
    pc = "git_wait" =>
        \/ (fs[op.path] = "absent" /\ op.kind = "clone")
        \/ (fs[op.path] = "repo" /\ op.kind = "pull")

\* the pages of a list of pages, one after the other
RECURSIVE Flatten(_)
Flatten(pages) == IF pages = <<>> THEN <<>> ELSE pages[1] \o Flatten(Tail(pages))

\* the enumeration of this pass is complete
Enumerated == pc \in {"loop", "git_wait"}

\* C6 as stated: the client yields the descriptors of the pages in page
\* order and issues no request after a page shorter than the page size.
C6_StopsAfterShortPage ==
    /\ Enumerated => repos = Flatten(pagesServed)
    /\ (pc = "http_wait" /\ pagesServed # <<>>) =>
           Len(pagesServed[Len(pagesServed)]) = PageSize

\* C6 amended: the client yields the descriptors of the pages in page order
\* and stops at the first empty page: after the last non-empty page (short
\* or full) it issues exactly one more request.  When the forge's list
\* does not change during the enumeration that is the whole list.
C6_StopsAtEmptyPage ==
    /\ pc = "http_wait" =>
           /\ repos = Flatten(pagesServed)
           /\ Len(pagesServed) = page - 1
           /\ \A k \in 1..Len(pagesServed) : pagesServed[k] # <<>>
    /\ Enumerated =>
           /\ repos = Flatten(pagesServed)
           /\ Len(pagesServed) = page
           /\ \A k \in 1..Len(pagesServed) : (pagesServed[k] = <<>>) <=> (k = page)
           /\ healthy => repos = remote

\* a full page, then a short page, then the request that found the empty page
C6_Witness ==
    /\ pc = "loop"
    /\ Len(pagesServed) = 3
    /\ Len(pagesServed[1]) = PageSize
    /\ Len(pagesServed[2]) > 0
    /\ Len(pagesServed[2]) < PageSize
    /\ pagesServed[3] = <<>>
    /\ repos = pagesServed[1] \o pagesServed[2]

\* C7: the second of two passes in a row over the same list, with nothing
\* failing outside the program in either of them (token present, every page
\* request answered 200, git failing only where the local tree makes it
\* fail), runs only updates and counts no failure.
C7_SecondPassOnlyUpdates ==
    (PassEndedEnumerated /\ healthy /\ prevHealthy) =>
        /\ \A k \in 1..Len(acts) : acts[k].kind = "pull"
        /\ fail_count = 0

\* C8: no external operation blocks for ever: every page request that is
\* waiting for its answer and every git process that is running comes to an
\* end, and a git that was killed at its timeout leaves no process running.
C8_NoOperationBlocksForever ==
    /\ \A k \in 1..(MaxRepos + 1) :
           (pc = "http_wait" /\ page = k) ~> ~(pc = "http_wait" /\ page = k)
    /\ (pc = "git_wait") ~> (pc # "git_wait")
    /\ [](~orphans)

\* C9: a pass that completed enumeration produced one action per
\* descriptor, in list order, each at base_dir/owner/name, with
\* succeeded + failed = total = |R| at the summary and distinct paths for
\* distinct full names.
C9_OneActionPerDescriptor ==
    PassEndedEnumerated =>
        /\ result = "summary"
        /\ Len(acts) = Len(repos)
        /\ success_count + fail_count = Len(repos)
        /\ \A k \in 1..Len(repos) :
               acts[k].path = base_dir \o Parts(repos[k].full_name, 1, <<>>)
        /\ \A j, k \in 1..Len(repos) :
               repos[j].full_name # repos[k].full_name => acts[j].path # acts[k].path

\* C10: a clone runs only against a target path that does not exist, and a
\* pass that completed enumeration ran exactly one git operation (a clone or
\* a pull) for every descriptor of its list.
C10_ExactlyOneGitOpPerDescriptor ==
    /\ (pc = "git_wait" /\ op.kind = "clone") => fs[op.path] = "absent"
    /\ PassEndedEnumerated =>
           /\ Len(acts) = Len(repos)
           /\ \A k \in 1..Len(acts) : acts[k].kind \in {"clone", "pull"}

====
